---- MODULE Spec2Model ----
(***************************************************************************)
(* Model of src/app.py: the /chat endpoint of the Flask chat router, its   *)
(* in-memory session store chat_sessions, the provider dispatch            *)
(* call_ai_api and the three flow handlers.                                *)
(*                                                                         *)
(* Text is modelled as a sequence of chunks (single characters for user    *)
(* input, named chunks for the fixed literals of the program), so that     *)
(* str.strip(), str.lower(), ', '.join() and Python truthiness of a string *)
(* (non-empty) are computed rather than assumed.                           *)
(***************************************************************************)
EXTENDS Integers, Sequences, FiniteSets, TLC

VARIABLES
    env,            \* the three credentials read from the environment (lines 10-12)
    chat_sessions,  \* the session store (line 34): user id -> session
    req,            \* JSON body of the last /chat request
    resp,           \* JSON body of the last /chat response
    calls,          \* call_ai_api invocations made by the last request
    posts,          \* requests.post calls issued by the last request
    raised,         \* exception caught at line 119 in the last request, or ""
    nreq,           \* number of requests served so far
    client,         \* per user id: chat_state/symptoms of the last response it got
    flow,           \* per user id: length of the symptom-flow echo chain, or Broken
    turns,          \* per user id: counts of doctor turns and of failed doctor turns
    heap,           \* list objects by reference (SpecRace: lists are shared by reference)
    threads         \* request threads of SpecRace: position and locals of each

vars == <<env, chat_sessions, req, resp, calls, posts, raised, nreq, client, flow, turns,
          heap, threads>>

----------------------------------------------------------------------------
\* Bounds of the model.

\* Requests served in one behaviour.
MaxReq == 2

\* Longest symptom list a request carries.
MaxSyms == 2

\* Doctor turns in one behaviour of SpecDoctor.
MaxTurns == 3

\* Direct calls of call_ai_api in one behaviour of SpecCall.
MaxCalls == 2

----------------------------------------------------------------------------
\* Python values.

\* Python None (an unset credential, model_used of a reply no provider produced).
None == <<"None">>

Providers == {"openai", "anthropic", "groq"}

\* str.strip(): whitespace chunk.
Space == " "

RECURSIVE lstrip(_)
lstrip(s) == IF s # <<>> /\ Head(s) = Space THEN lstrip(Tail(s)) ELSE s

RECURSIVE rstrip(_)
rstrip(s) ==
    IF s # <<>> /\ s[Len(s)] = Space THEN rstrip(SubSeq(s, 1, Len(s) - 1)) ELSE s

strip(s) == rstrip(lstrip(s))

LowerChar(c) ==
    CASE c = "D" -> "d"
      [] c = "F" -> "f"
      [] c = "O" -> "o"
      [] OTHER -> c

lower(s) == [i \in 1..Len(s) |-> LowerChar(s[i])]

\* sep.join(list)
RECURSIVE join(_, _)
join(sep, list) ==
    IF list = <<>> THEN <<>>
    ELSE IF Len(list) = 1 THEN list[1]
    ELSE list[1] \o sep \o join(sep, Tail(list))

\* dict.get(key, default) on a JSON object
Get(data, key, default) == IF key \in DOMAIN data THEN data[key] ELSE default

\* truthiness of a str, a list or None
Truthy(x) == x # <<>> /\ x # None

\* Request threads of the server, and the list objects each can allocate:
\* the symptoms list of its JSON body (line 73), the two lists of a new
\* session (line 80) and the empty list of line 99.
Threads == {1, 2}
Ref(kind, t) == <<kind, t>>
Refs == {"body", "hist", "syms", "clear"} \X Threads

----------------------------------------------------------------------------
\* Provider dispatch (lines 14-61).

MaxTokens == 500

Url(p) ==
    CASE p = "openai" -> <<"https://api.openai.com/v1/chat/completions">>
      [] p = "anthropic" -> <<"https://api.anthropic.com/v1/messages">>
      [] p = "groq" -> <<"https://api.groq.com/openai/v1/chat/completions">>

Model(p) ==
    CASE p = "openai" -> <<"gpt-4o">>
      [] p = "anthropic" -> <<"claude-3-5-sonnet-20241022">>
      [] p = "groq" -> <<"llama3-70b-8192">>

API_CONFIG == [p \in Providers |-> [url |-> Url(p), key |-> env[p], model |-> Model(p)]]

\* The JSON body a provider answers with: each provider has its own shape.
ProviderJson(provider, text) ==
    IF provider = "anthropic"
    THEN [content |-> <<[text |-> text]>>]
    ELSE [choices |-> <<[message |-> [content |-> text]]>>]

\* What the transport can do with one requests.post: a success status with a
\* reply text (possibly empty), or a non-success status.
Nets == {[ok |-> TRUE, text |-> <<"r">>], [ok |-> TRUE, text |-> <<>>],
         [ok |-> FALSE, text |-> <<>>]}

Dict(keys, f) == [k \in keys |-> f[k]]

\* Mutant: line 53 missing, the bearer header left in place for anthropic.
Headers_bearer_kept(provider, key) ==
    LET h0 == [h \in {"Content-Type", "Authorization"} |->
                 IF h = "Content-Type" THEN <<"application/json">>
                 ELSE <<"Bearer ">> \o key]
        h1 == [h \in DOMAIN h0 \cup {"x-api-key"} |->
                 IF h = "x-api-key" THEN key ELSE h0[h]]
    IN  IF provider = "anthropic" THEN h1 ELSE h0

Headers(provider, key) ==
    LET h0 == [h \in {"Content-Type", "Authorization"} |->
                 IF h = "Content-Type" THEN <<"application/json">>
                 ELSE <<"Bearer ">> \o key]
        h1 == [h \in DOMAIN h0 \cup {"x-api-key"} |->
                 IF h = "x-api-key" THEN key ELSE h0[h]]
        h2 == Dict(DOMAIN h1 \ {"Authorization"}, h1)
    IN  IF provider = "anthropic" THEN h2 ELSE h0

\* Mutant: the context dropped from the payload, the prompt sent alone.
Body_prompt_only(provider, prompt, context) ==
    [model |-> API_CONFIG[provider].model,
     messages |-> <<[role |-> "user", content |-> prompt]>>,
     max_tokens |-> MaxTokens]

Body(provider, prompt, context) ==
    [model |-> API_CONFIG[provider].model,
     messages |-> context \o <<[role |-> "user", content |-> prompt]>>,
     max_tokens |-> MaxTokens]

\* Mutant: the credential tested against None only, an empty one accepted.
call_ai_api_unset_only(provider, prompt, context, net) ==
    IF provider \notin DOMAIN API_CONFIG \/ API_CONFIG[provider].key = None
    THEN [raised |-> "ValueError", value |-> None, posts |-> <<>>]
    ELSE LET config == API_CONFIG[provider]
             post == [url |-> config.url,
                      headers |-> Headers(provider, config.key),
                      json |-> Body(provider, prompt, context)]
             json == ProviderJson(provider, net.text)
         IN  IF ~net.ok
             THEN [raised |-> "HTTPError", value |-> None, posts |-> <<post>>]
             ELSE [raised |-> "",
                   value |-> IF provider = "anthropic"
                             THEN json.content[1].text
                             ELSE json.choices[1].message.content,
                   posts |-> <<post>>]

\* Result of a call: raised is "" when the call returned value, else the
\* exception; posts are the requests.post calls it issued.
call_ai_api(provider, prompt, context, net) ==
    IF provider \notin DOMAIN API_CONFIG \/ ~Truthy(API_CONFIG[provider].key)
    THEN [raised |-> "ValueError", value |-> None, posts |-> <<>>]
    ELSE LET config == API_CONFIG[provider]
             post == [url |-> config.url,
                      headers |-> Headers(provider, config.key),
                      json |-> Body(provider, prompt, context)]
             json == ProviderJson(provider, net.text)
         IN  IF ~net.ok
             THEN [raised |-> "HTTPError", value |-> None, posts |-> <<post>>]
             ELSE [raised |-> "",
                   value |-> IF provider = "anthropic"
                             THEN json.content[1].text
                             ELSE json.choices[1].message.content,
                   posts |-> <<post>>]

Call(provider, prompt, context) ==
    [provider |-> provider, prompt |-> prompt, context |-> context]

----------------------------------------------------------------------------
\* Fixed texts of the program.

PleaseEnter == <<"Please enter a message.">>
Menu == <<"Please select an option:", "<button symptom>", "<button doctor>", "<button patient>">>
InvalidState == <<"Invalid state. Please start over.">>
Apology == <<"Sorry, an error occurred. Please try again.">>
DescribePrompt == <<"Please describe your symptoms (e.g., fever, cough, headache).">>
MorePrompt == <<"Please share another symptom or type 'done'.">>
Done == <<"d", "o", "n", "e">>
ButtonDoctor == <<"<br>", "<button doctor: Connect with a Doctor>">>
ButtonMenu == <<"<br>", "<button initial: Back to Menu>">>
GroqLabel == <<"Llama 3.1 (Groq)">>
ClaudeLabel == <<"Claude 3.5 Sonnet">>
GptLabel == <<"ChatGPT (GPT-4o)">>

SymptomPrompt(symptoms) ==
    <<"You are a medical assistant analyzing symptoms ... The patient has reported: ">>
    \o join(<<",", " ">>, symptoms)
    \o <<". Provide a concise possible diagnosis ...">>

DoctorPrompt(message) ==
    <<"You are a medical assistant simulating a doctor consultation. The user has asked: ">>
    \o message \o <<". Provide general advice ...">>

PatientPrompt(message) ==
    <<"You are a friendly assistant in a patient community chat. The user shared: ">>
    \o message \o <<". Respond empathetically ...">>

----------------------------------------------------------------------------
\* Flow handlers (lines 128-158).  Each returns the pair (response,
\* model_used) of the code, or the exception it raised, with the provider
\* calls it made.  handle_symptom_check appends to the list it is given, in
\* place: symptoms is that list as the handler left it.

Returned(response, model_used, cs, ps) ==
    [raised |-> "", response |-> response, model_used |-> model_used,
     calls |-> cs, posts |-> ps]

Raised(exc, cs, ps) ==
    [raised |-> exc, response |-> None, model_used |-> None,
     calls |-> cs, posts |-> ps]

WithSymptoms(r, symptoms) ==
    [k \in DOMAIN r \cup {"symptoms"} |-> IF k = "symptoms" THEN symptoms ELSE r[k]]

\* Mutant: the threshold test off by one (<= 3 for < 3).
handle_symptom_check_late(message, symptoms, history, net) ==
    IF ~Truthy(message)
    THEN WithSymptoms(Returned(DescribePrompt, None, <<>>, <<>>), symptoms)
    ELSE LET appended == Append(symptoms, lower(message))
         IN  IF Len(appended) <= 3 /\ lower(message) # Done
             THEN WithSymptoms(Returned(MorePrompt, None, <<>>, <<>>), appended)
             ELSE LET prompt == SymptomPrompt(appended)
                      r == call_ai_api("groq", prompt, history, net)
                      cs == <<Call("groq", prompt, history)>>
                  IN  IF r.raised # ""
                      THEN WithSymptoms(Raised(r.raised, cs, r.posts), appended)
                      ELSE WithSymptoms(
                               Returned(r.value \o ButtonDoctor, GroqLabel, cs, r.posts),
                               appended)

handle_symptom_check(message, symptoms, history, net) ==
    IF ~Truthy(message)
    THEN WithSymptoms(Returned(DescribePrompt, None, <<>>, <<>>), symptoms)
    ELSE LET appended == Append(symptoms, lower(message))
         IN  IF Len(appended) < 3 /\ lower(message) # Done
             THEN WithSymptoms(Returned(MorePrompt, None, <<>>, <<>>), appended)
             ELSE LET prompt == SymptomPrompt(appended)
                      r == call_ai_api("groq", prompt, history, net)
                      cs == <<Call("groq", prompt, history)>>
                  IN  IF r.raised # ""
                      THEN WithSymptoms(Raised(r.raised, cs, r.posts), appended)
                      ELSE WithSymptoms(
                               Returned(r.value \o ButtonDoctor, GroqLabel, cs, r.posts),
                               appended)

handle_doctor_chat(message, history, net) ==
    LET prompt == DoctorPrompt(message)
        r == call_ai_api("anthropic", prompt, history, net)
        cs == <<Call("anthropic", prompt, history)>>
    IN  IF r.raised # ""
        THEN Raised(r.raised, cs, r.posts)
        ELSE Returned(r.value \o ButtonMenu, ClaudeLabel, cs, r.posts)

\* Mutant: the patient flow dispatched to the doctor flow's provider.
handle_patient_chat_anthropic(message, history, net) ==
    LET prompt == PatientPrompt(message)
        r == call_ai_api("anthropic", prompt, history, net)
        cs == <<Call("anthropic", prompt, history)>>
    IN  IF r.raised # ""
        THEN Raised(r.raised, cs, r.posts)
        ELSE Returned(r.value \o ButtonMenu, GptLabel, cs, r.posts)

handle_patient_chat(message, history, net) ==
    LET prompt == PatientPrompt(message)
        r == call_ai_api("openai", prompt, history, net)
        cs == <<Call("openai", prompt, history)>>
    IN  IF r.raised # ""
        THEN Raised(r.raised, cs, r.posts)
        ELSE Returned(r.value \o ButtonMenu, GptLabel, cs, r.posts)

----------------------------------------------------------------------------
\* The /chat endpoint (lines 67-126).

\* line 75: the empty-message short circuit
IsValidationReturn(message, chat_state) == ~Truthy(message) /\ chat_state # "initial"

\* line 76
ValidationResponse(chat_state, symptoms) ==
    [response |-> PleaseEnter, chat_state |-> chat_state, symptoms |-> symptoms]

NewSession == [history |-> <<>>, chat_state |-> "initial", symptoms |-> <<>>]

\* Mutant: the test of line 79 missing, a new session stored on every request.
GetOrCreate_always(sessions, user_id) ==
    [u \in DOMAIN sessions \cup {user_id} |->
        IF u = user_id THEN NewSession ELSE sessions[u]]

\* lines 79-80
GetOrCreate(sessions, user_id) ==
    IF user_id \notin DOMAIN sessions
    THEN [u \in DOMAIN sessions \cup {user_id} |->
            IF u = user_id THEN NewSession ELSE sessions[u]]
    ELSE sessions

\* Mutant: line 84 assigning a new one-entry list instead of appending.
UpdateSession_restart(sess, message, chat_state, symptoms) ==
    [history |-> IF Truthy(message)
                 THEN <<[role |-> "user", content |-> message]>>
                 ELSE sess.history,
     chat_state |-> chat_state,
     symptoms |-> symptoms]

\* Mutant: the guard of line 83 dropped, the message appended also when empty.
UpdateSession_unguarded(sess, message, chat_state, symptoms) ==
    [history |-> Append(sess.history, [role |-> "user", content |-> message]),
     chat_state |-> chat_state,
     symptoms |-> symptoms]

\* lines 83-86
UpdateSession(sess, message, chat_state, symptoms) ==
    [history |-> IF Truthy(message)
                 THEN Append(sess.history, [role |-> "user", content |-> message])
                 ELSE sess.history,
     chat_state |-> chat_state,
     symptoms |-> symptoms]

\* lines 98-100: the symptom branch after handle_symptom_check returned or
\* raised r.  The handler appended to the session's own list (line 131), so
\* the append stays in the store also when line 140 raises.
SymptomBranch(sess, r) ==
    IF r.raised # ""
    THEN [out |-> r, sess |-> [sess EXCEPT !.symptoms = r.symptoms]]
    ELSE [out |-> r,
          sess |-> [sess EXCEPT
              !.symptoms = IF Truthy(r.response) THEN <<>> ELSE r.symptoms,
              !.chat_state = IF Truthy(r.response) THEN "initial" ELSE "symptom"]]

\* lines 102-103 and 105-106: a raise skips the assignment of chat_state
ConsultBranch(sess, r) ==
    IF r.raised # ""
    THEN [out |-> r, sess |-> sess]
    ELSE [out |-> r, sess |-> [sess EXCEPT !.chat_state = "initial"]]

\* Mutant: an unrecognized chat_state served by the menu branch.
Dispatch_menu_default(sess, message, chat_state, net) ==
    IF chat_state = "symptom"
    THEN SymptomBranch(sess,
             handle_symptom_check(message, sess.symptoms, sess.history, net))
    ELSE IF chat_state = "doctor"
    THEN ConsultBranch(sess, handle_doctor_chat(message, sess.history, net))
    ELSE IF chat_state = "patient"
    THEN ConsultBranch(sess, handle_patient_chat(message, sess.history, net))
    ELSE [out |-> Returned(Menu, None, <<>>, <<>>), sess |-> sess]

\* lines 89-109: the branch on chat_state.  out is what the branch computed
\* (response, model_used, or the exception), sess the session as it left it.
Dispatch(sess, message, chat_state, net) ==
    IF chat_state = "initial"
    THEN [out |-> Returned(Menu, None, <<>>, <<>>), sess |-> sess]
    ELSE IF chat_state = "symptom"
    THEN SymptomBranch(sess,
             handle_symptom_check(message, sess.symptoms, sess.history, net))
    ELSE IF chat_state = "doctor"
    THEN ConsultBranch(sess, handle_doctor_chat(message, sess.history, net))
    ELSE IF chat_state = "patient"
    THEN ConsultBranch(sess, handle_patient_chat(message, sess.history, net))
    ELSE [out |-> Returned(InvalidState, None, <<>>, <<>>), sess |-> sess]

\* lines 111-118
Reply(sess, out) ==
    LET final == IF Truthy(out.response)
                 THEN [sess EXCEPT !.history =
                          Append(@, [role |-> "assistant", content |-> out.response])]
                 ELSE sess
    IN  [sess |-> final,
         resp |-> [response |-> out.response, chat_state |-> final.chat_state,
                   symptoms |-> final.symptoms, model_used |-> out.model_used]]

\* lines 119-126
ErrorResponse ==
    [response |-> Apology, chat_state |-> "initial", symptoms |-> <<>>,
     model_used |-> None]

\* Mutant: the except handler answers with the session's chat_state and
\* symptoms, as the success path does, instead of the reset values.
Finish_echo(created, user_id, d) ==
    LET fin == IF d.out.raised # ""
               THEN [sess |-> d.sess,
                     resp |-> [response |-> Apology, chat_state |-> d.sess.chat_state,
                               symptoms |-> d.sess.symptoms, model_used |-> None]]
               ELSE Reply(d.sess, d.out)
    IN  [sessions |-> [created EXCEPT ![user_id] = fin.sess],
         resp |-> fin.resp,
         calls |-> d.out.calls, posts |-> d.out.posts, raised |-> d.out.raised]

\* Mutant: the except handler appends its apology to the history, as line
\* 112 does with every other response.
Finish_logged(created, user_id, d) ==
    LET fin == IF d.out.raised # ""
               THEN [sess |-> [d.sess EXCEPT !.history =
                                  Append(@, [role |-> "assistant", content |-> Apology])],
                     resp |-> ErrorResponse]
               ELSE Reply(d.sess, d.out)
    IN  [sessions |-> [created EXCEPT ![user_id] = fin.sess],
         resp |-> fin.resp,
         calls |-> d.out.calls, posts |-> d.out.posts, raised |-> d.out.raised]

\* lines 88-126: the try block and its handler, given what the branch did.
Finish(created, user_id, d) ==
    LET fin == IF d.out.raised # ""
               THEN [sess |-> d.sess, resp |-> ErrorResponse]
               ELSE Reply(d.sess, d.out)
    IN  [sessions |-> [created EXCEPT ![user_id] = fin.sess],
         resp |-> fin.resp,
         calls |-> d.out.calls, posts |-> d.out.posts, raised |-> d.out.raised]

\* lines 75-126, on the fields read from the body
Handle(sessions, user_id, message, chat_state, symptoms, net) ==
    IF IsValidationReturn(message, chat_state)
    THEN [sessions |-> sessions,
          resp |-> ValidationResponse(chat_state, symptoms),
          calls |-> <<>>, posts |-> <<>>, raised |-> ""]
    ELSE LET created == GetOrCreate(sessions, user_id)
         IN  Finish(created, user_id,
                    Dispatch(UpdateSession(created[user_id], message, chat_state, symptoms),
                             message, chat_state, net))

\* Mutant: line 71 without .strip().
chat_unstripped(sessions, data, net) ==
    Handle(sessions,
           Get(data, "user_id", "default"),
           Get(data, "message", <<>>),
           Get(data, "chat_state", "initial"),
           Get(data, "symptoms", <<>>),
           net)

\* The whole handler: the store and the response it produces for the JSON
\* body data when the transport behaves as net.
chat(sessions, data, net) ==
    Handle(sessions,
           Get(data, "user_id", "default"),
           strip(Get(data, "message", <<>>)),
           Get(data, "chat_state", "initial"),
           Get(data, "symptoms", <<>>),
           net)

----------------------------------------------------------------------------
\* The environment: credentials, request bodies, clients.

\* Credentials the process can start with: set, unset (None) or empty.
Envs ==
    { [p \in Providers |-> <<"k">>],
      [p \in Providers |-> IF p = "anthropic" THEN <<>> ELSE None] }

UserIds == {"default", "u1"}
Messages == {<<" ">>, <<" ", "F">>, <<"D", "o", "n", "e">>}
ChatStates == {"initial", "symptom", "doctor", "patient", "bogus"}
ValidStates == {"initial", "symptom", "doctor", "patient"}
SymptomWords == {<<"f">>}
SymLists == UNION {[1..n -> SymptomWords] : n \in 0..MaxSyms}

AllKeys == {"user_id", "message", "chat_state", "symptoms"}
KeySets == {AllKeys, {"message", "chat_state"}, {"user_id"}}

FullBodies ==
    [user_id : {"u1"}, message : Messages, chat_state : ChatStates, symptoms : SymLists]

Bodies == {Dict(K, b) : K \in KeySets, b \in FullBodies}

NoBody == [none |-> TRUE]

\* The fields of a body as chat() reads them (lines 70-73).
UserOf(data) == Get(data, "user_id", "default")
MessageOf(data) == strip(Get(data, "message", <<>>))
StateOf(data) == Get(data, "chat_state", "initial")
SymptomsOf(data) == Get(data, "symptoms", <<>>)

Broken == 0 - 1

\* A client that starts the symptom flow and then sends back, on each
\* request, the chat_state and symptoms of the previous response, with
\* non-empty messages other than "done".
Echoes(data) ==
    /\ flow[UserOf(data)] # Broken
    /\ StateOf(data) = client[UserOf(data)].chat_state
    /\ SymptomsOf(data) = client[UserOf(data)].symptoms
    /\ Truthy(MessageOf(data))
    /\ lower(MessageOf(data)) # Done

IsDoctorTurn(data) == StateOf(data) = "doctor" /\ Truthy(MessageOf(data))

\* A thread that has not received its request.
Idle ==
    [pc |-> "idle", data |-> NoBody, given |-> <<>>, context |-> <<>>,
     out |-> WithSymptoms(Returned(<<>>, None, <<>>, <<>>), <<>>), resp |-> NoBody]

Init ==
    /\ env \in Envs
    /\ chat_sessions = Dict({}, <<>>)
    /\ req = NoBody
    /\ resp = NoBody
    /\ calls = <<>>
    /\ posts = <<>>
    /\ raised = ""
    /\ nreq = 0
    /\ client = [u \in UserIds |-> [chat_state |-> "symptom", symptoms |-> <<>>]]
    /\ flow = [u \in UserIds |-> 0]
    /\ turns = [u \in UserIds |-> [n |-> 0, f |-> 0, other |-> FALSE]]
    /\ heap = [r \in Refs |-> <<>>]
    /\ threads = [t \in Threads |-> Idle]

Observe(data, r) ==
    LET u == UserOf(data)
    IN  /\ nreq' = nreq + 1
        /\ chat_sessions' = r.sessions
        /\ req' = data
        /\ resp' = r.resp
        /\ calls' = r.calls
        /\ posts' = r.posts
        /\ raised' = r.raised
        /\ client' = [client EXCEPT ![u] =
                         [chat_state |-> r.resp.chat_state, symptoms |-> r.resp.symptoms]]
        /\ flow' = [flow EXCEPT ![u] = IF Echoes(data) THEN @ + 1 ELSE Broken]
        /\ turns' = [turns EXCEPT ![u] =
                        IF IsDoctorTurn(data)
                        THEN [@ EXCEPT !.n = @ + 1,
                                       !.f = IF r.raised # "" THEN @ + 1 ELSE @]
                        ELSE [@ EXCEPT !.other = TRUE]]
        /\ UNCHANGED <<env, heap, threads>>

\* The transport decides the outcome of a request only when the request
\* reaches requests.post (line 56): Issues(data) is whether it does.
Issues(data) == chat(chat_sessions, data, CHOOSE n \in Nets : n.ok).posts # <<>>

\* A request served without an outbound call.
ChatLocal(data) ==
    \E r \in {chat(chat_sessions, data, CHOOSE n \in Nets : n.ok)} :
        r.posts = <<>> /\ Observe(data, r)

\* A request that posts to a provider, whose transport behaves as net.
ChatRemote(data, net) == Observe(data, chat(chat_sessions, data, net))

Next ==
    \/ \E data \in Bodies : nreq < MaxReq /\ ChatLocal(data)
    \/ \E data \in Bodies :
          nreq < MaxReq /\ Issues(data) /\ \E net \in Nets : ChatRemote(data, net)

Spec == Init /\ [][Next]_vars

\* Behaviours made of doctor turns only: every request has chat_state
\* "doctor" and a non-empty message.
DoctorBodies == {b \in Bodies : IsDoctorTurn(b) /\ SymptomsOf(b) = <<>>}

NextDoctor ==
    \/ \E data \in DoctorBodies : nreq < MaxTurns /\ ChatLocal(data)
    \/ \E data \in DoctorBodies :
          nreq < MaxTurns /\ Issues(data) /\ \E net \in Nets : ChatRemote(data, net)

SpecDoctor == Init /\ [][NextDoctor]_vars

\* call_ai_api on its own: any provider name, any combination of set, unset
\* and empty credentials, with or without prior history.
ProviderNames == Providers \cup {"mistral"}
Credentials == {None, <<>>, <<"k">>}
AllEnvs == [Providers -> Credentials]
Contexts == {<<>>, <<[role |-> "user", content |-> <<"F">>],
                     [role |-> "assistant", content |-> Menu]>>}

InitCall ==
    /\ env \in AllEnvs
    /\ chat_sessions = Dict({}, <<>>)
    /\ req = NoBody
    /\ resp = NoBody
    /\ calls = <<>>
    /\ posts = <<>>
    /\ raised = ""
    /\ nreq = 0
    /\ client = [u \in UserIds |-> [chat_state |-> "symptom", symptoms |-> <<>>]]
    /\ flow = [u \in UserIds |-> 0]
    /\ turns = [u \in UserIds |-> [n |-> 0, f |-> 0, other |-> FALSE]]
    /\ heap = [r \in Refs |-> <<>>]
    /\ threads = [t \in Threads |-> Idle]

\* One call: calls, posts and raised describe it, resp holds its return value.
ApplyCall(provider, prompt, context, net) ==
    \E r \in {call_ai_api(provider, prompt, context, net)} :
        /\ nreq < MaxCalls
        /\ nreq' = nreq + 1
        /\ calls' = <<Call(provider, prompt, context)>>
        /\ posts' = r.posts
        /\ raised' = r.raised
        /\ resp' = [value |-> r.value]
        /\ UNCHANGED <<env, chat_sessions, req, client, flow, turns, heap, threads>>

NextCall ==
    \E provider \in ProviderNames, context \in Contexts, net \in Nets :
        ApplyCall(provider, DoctorPrompt(<<"F">>), context, net)

SpecCall == InitCall /\ [][NextCall]_vars

----------------------------------------------------------------------------
\* Concurrent requests.  The server runs each request in its own thread
\* and chat() takes no lock: the threads interleave between the statements
\* of lines 69-126.  Here chat_sessions holds references: the history and
\* symptoms of a session are list objects of heap, as in Python, and every
\* statement looks chat_sessions[user_id] up again.  Each step below is one
\* statement of chat(); the flow handlers run in one step up to the
\* blocking requests.post of line 56.

\* Bodies of the concurrent requests: for user id u1 a symptom message
\* with each symptom list, a doctor message and a first message; for the
\* default user id a message in three states; and the empty-message request.
RaceBodies ==
    {b \in Bodies :
        /\ Get(b, "message", <<>>) = <<" ", "F">>
        /\ \/ /\ DOMAIN b = AllKeys
              /\ \/ StateOf(b) = "symptom"
                 \/ StateOf(b) \in {"initial", "doctor"} /\ SymptomsOf(b) = <<>>
           \/ /\ DOMAIN b = {"message", "chat_state"}
              /\ StateOf(b) \in {"symptom", "patient", "bogus"}}
    \cup {b \in Bodies : /\ Get(b, "message", <<>>) = <<" ">>
                          /\ StateOf(b) = "doctor" /\ SymptomsOf(b) = <<>>}

\* Mutant: the new session's lists are one pair of module-level default lists.
NewSessionRefs_shared(t) ==
    [history |-> Ref("hist", 1), chat_state |-> "initial", symptoms |-> Ref("syms", 1)]

\* line 80: the session a thread stores, with its two new lists
NewSessionRefs(t) ==
    [history |-> Ref("hist", t), chat_state |-> "initial", symptoms |-> Ref("syms", t)]

\* The flow handler of a chat_state, on the list values it is passed.
RunFlow(chat_state, message, given, context, net) ==
    CASE chat_state = "symptom" -> handle_symptom_check(message, given, context, net)
      [] chat_state = "doctor" ->
             WithSymptoms(handle_doctor_chat(message, context, net), given)
      [] chat_state = "patient" ->
             WithSymptoms(handle_patient_chat(message, context, net), given)

Me(t) == threads[t]
Uid(t) == UserOf(threads[t].data)
Goto(t, pc) == threads' = [threads EXCEPT ![t].pc = pc]
RaceFrame == UNCHANGED <<env, req, resp, calls, posts, raised, nreq, client, flow, turns>>

\* lines 69-76: read the body; the empty-message return
Receive(t, data) ==
    /\ Me(t).pc = "idle"
    /\ heap' = [heap EXCEPT ![Ref("body", t)] = SymptomsOf(data)]
    /\ threads' = [threads EXCEPT ![t] =
          IF IsValidationReturn(MessageOf(data), StateOf(data))
          THEN [@ EXCEPT !.pc = "done", !.data = data,
                         !.resp = ValidationResponse(StateOf(data), SymptomsOf(data))]
          ELSE [@ EXCEPT !.pc = "l79", !.data = data]]
    /\ UNCHANGED chat_sessions /\ RaceFrame

\* line 79
Line79(t) ==
    /\ Me(t).pc = "l79"
    /\ Goto(t, IF Uid(t) \notin DOMAIN chat_sessions THEN "l80" ELSE "l83")
    /\ UNCHANGED <<chat_sessions, heap>> /\ RaceFrame

\* line 80
Line80(t) ==
    /\ Me(t).pc = "l80"
    /\ chat_sessions' = [u \in DOMAIN chat_sessions \cup {Uid(t)} |->
                           IF u = Uid(t) THEN NewSessionRefs(t) ELSE chat_sessions[u]]
    /\ heap' = [heap EXCEPT ![NewSessionRefs(t).history] = <<>>,
                            ![NewSessionRefs(t).symptoms] = <<>>]
    /\ Goto(t, "l83")
    /\ RaceFrame

\* lines 83-84
Line83(t) ==
    /\ Me(t).pc = "l83"
    /\ heap' = IF Truthy(MessageOf(Me(t).data))
               THEN [heap EXCEPT ![chat_sessions[Uid(t)].history] =
                        Append(@, [role |-> "user", content |-> MessageOf(Me(t).data)])]
               ELSE heap
    /\ Goto(t, "l85")
    /\ UNCHANGED chat_sessions /\ RaceFrame

\* line 85
Line85(t) ==
    /\ Me(t).pc = "l85"
    /\ chat_sessions' = [chat_sessions EXCEPT ![Uid(t)].chat_state = StateOf(Me(t).data)]
    /\ Goto(t, "l86")
    /\ UNCHANGED heap /\ RaceFrame

\* line 86: the session now refers to the list of this request's body
Line86(t) ==
    /\ Me(t).pc = "l86"
    /\ chat_sessions' = [chat_sessions EXCEPT ![Uid(t)].symptoms = Ref("body", t)]
    /\ Goto(t, "l89")
    /\ UNCHANGED heap /\ RaceFrame

\* lines 89-96 and 107-109: the branches that call no handler
Line89Local(t) ==
    /\ Me(t).pc = "l89"
    /\ StateOf(Me(t).data) \notin {"symptom", "doctor", "patient"}
    /\ threads' = [threads EXCEPT ![t].pc = "l111",
          ![t].out = WithSymptoms(
                Returned(IF StateOf(Me(t).data) = "initial" THEN Menu ELSE InvalidState,
                         None, <<>>, <<>>), <<>>)]
    /\ UNCHANGED <<chat_sessions, heap>> /\ RaceFrame

\* lines 98, 102, 105: the handler is passed the session's lists as they are
\* now and runs until it returns, raises, or reaches requests.post;
\* handle_symptom_check appends to the list it was passed (line 131).
Line89Flow(t) ==
    /\ Me(t).pc = "l89"
    /\ StateOf(Me(t).data) \in {"symptom", "doctor", "patient"}
    /\ LET sess == chat_sessions[Uid(t)]
           given == heap[sess.symptoms]
           context == heap[sess.history]
       IN  \E r \in {RunFlow(StateOf(Me(t).data), MessageOf(Me(t).data), given, context,
                              CHOOSE n \in Nets : n.ok)} :
             /\ heap' = [heap EXCEPT ![sess.symptoms] = r.symptoms]
             /\ threads' = [threads EXCEPT ![t] =
                   [@ EXCEPT !.given = given, !.context = context, !.out = r,
                             !.pc = IF r.posts # <<>> THEN "l56"
                                    ELSE IF r.raised # "" THEN "l119"
                                    ELSE "l99"]]
    /\ UNCHANGED chat_sessions /\ RaceFrame

\* lines 56-61 and the handler's return: the transport answers as net
Line56(t, net) ==
    /\ Me(t).pc = "l56"
    /\ \E r \in {RunFlow(StateOf(Me(t).data), MessageOf(Me(t).data), Me(t).given,
                           Me(t).context, net)} :
          threads' = [threads EXCEPT ![t].out = r,
                ![t].pc = IF r.raised # "" THEN "l119"
                          ELSE IF StateOf(Me(t).data) = "symptom" THEN "l99"
                          ELSE "l103"]
    /\ UNCHANGED <<chat_sessions, heap>> /\ RaceFrame

\* line 99
Line99(t) ==
    /\ Me(t).pc = "l99"
    /\ chat_sessions' = IF Truthy(Me(t).out.response)
                        THEN [chat_sessions EXCEPT ![Uid(t)].symptoms = Ref("clear", t)]
                        ELSE chat_sessions
    /\ heap' = IF Truthy(Me(t).out.response)
               THEN [heap EXCEPT ![Ref("clear", t)] = <<>>]
               ELSE heap
    /\ Goto(t, "l100")
    /\ RaceFrame

\* line 100
Line100(t) ==
    /\ Me(t).pc = "l100"
    /\ chat_sessions' = [chat_sessions EXCEPT ![Uid(t)].chat_state =
                            IF Truthy(Me(t).out.response) THEN "initial" ELSE "symptom"]
    /\ Goto(t, "l111")
    /\ UNCHANGED heap /\ RaceFrame

\* lines 103 and 106
Line103(t) ==
    /\ Me(t).pc = "l103"
    /\ chat_sessions' = [chat_sessions EXCEPT ![Uid(t)].chat_state = "initial"]
    /\ Goto(t, "l111")
    /\ UNCHANGED heap /\ RaceFrame

\* lines 111-112
Line111(t) ==
    /\ Me(t).pc = "l111"
    /\ heap' = IF Truthy(Me(t).out.response)
               THEN [heap EXCEPT ![chat_sessions[Uid(t)].history] =
                        Append(@, [role |-> "assistant", content |-> Me(t).out.response])]
               ELSE heap
    /\ Goto(t, "l113")
    /\ UNCHANGED chat_sessions /\ RaceFrame

\* lines 113-118: the response is built from the session as it is now
Line113(t) ==
    /\ Me(t).pc = "l113"
    /\ threads' = [threads EXCEPT ![t].pc = "done",
          ![t].resp = [response |-> Me(t).out.response,
                       chat_state |-> chat_sessions[Uid(t)].chat_state,
                       symptoms |-> heap[chat_sessions[Uid(t)].symptoms],
                       model_used |-> Me(t).out.model_used]]
    /\ UNCHANGED <<chat_sessions, heap>> /\ RaceFrame

\* lines 119-126
Line119(t) ==
    /\ Me(t).pc = "l119"
    /\ threads' = [threads EXCEPT ![t].pc = "done", ![t].resp = ErrorResponse]
    /\ UNCHANGED <<chat_sessions, heap>> /\ RaceFrame

NextRace ==
    \/ \E t \in Threads, data \in RaceBodies : Receive(t, data)
    \/ \E t \in Threads : Line79(t)
    \/ \E t \in Threads : Line80(t)
    \/ \E t \in Threads : Line83(t)
    \/ \E t \in Threads : Line85(t)
    \/ \E t \in Threads : Line86(t)
    \/ \E t \in Threads : Line89Local(t)
    \/ \E t \in Threads : Line89Flow(t)
    \/ \E t \in Threads, net \in Nets : Line56(t, net)
    \/ \E t \in Threads : Line99(t)
    \/ \E t \in Threads : Line100(t)
    \/ \E t \in Threads : Line103(t)
    \/ \E t \in Threads : Line111(t)
    \/ \E t \in Threads : Line113(t)
    \/ \E t \in Threads : Line119(t)

SpecRace == Init /\ [][NextRace]_vars

----------------------------------------------------------------------------
\* Properties.  After a request has been served (nreq > 0), req, resp, calls,
\* posts and raised describe that request; in a step, the unprimed store is
\* the store before the request and the primed one the store after it.

Served == nreq > 0
User == UserOf(req)
Message == MessageOf(req)

HistoryOf(sessions, u) == IF u \in DOMAIN sessions THEN sessions[u].history ELSE <<>>
UserEntry(message) ==
    IF message # <<>> THEN <<[role |-> "user", content |-> message]>> ELSE <<>>
AssistantEntry(text) == <<[role |-> "assistant", content |-> text]>>

RECURSIVE CountRole(_, _)
CountRole(history, role) ==
    IF history = <<>> THEN 0
    ELSE (IF Head(history).role = role THEN 1 ELSE 0) + CountRole(Tail(history), role)

\* The request collects a symptom without triggering the triage call.
Collecting(data) ==
    /\ StateOf(data) = "symptom"
    /\ MessageOf(data) # <<>>
    /\ lower(MessageOf(data)) # Done
    /\ Len(SymptomsOf(data)) + 1 < 3

\* The request completes the symptom flow: "done", or the third symptom.
Completing(data) ==
    /\ StateOf(data) = "symptom"
    /\ MessageOf(data) # <<>>
    /\ (lower(MessageOf(data)) = Done \/ Len(SymptomsOf(data)) + 1 >= 3)

\* C1: a symptom request that collects (non-empty message other than "done",
\* fewer than 3 symptoms with it) appends the message to the symptom list,
\* returns the follow-up prompt with no provider call, and leaves chat_state
\* "symptom" in the response and in the store, the returned symptoms being
\* the collected list with the new message.
C1_CollectStaysInSymptom ==
    (Served /\ Collecting(req)) =>
        /\ resp.response = MorePrompt
        /\ calls = <<>>
        /\ resp.chat_state = "symptom"
        /\ chat_sessions[User].chat_state = "symptom"
        /\ resp.symptoms = Append(SymptomsOf(req), lower(Message))

\* C2: for a client that echoes the chat_state and symptoms of the previous
\* response, starting from "symptom" and no symptoms, the first and second
\* non-"done" messages get the follow-up prompt without a provider call and
\* the third triggers the symptom-triage call.
C2_ThirdEchoedMessageTriages ==
    Served =>
        /\ flow[User] \in {1, 2} => (resp.response = MorePrompt /\ calls = <<>>)
        /\ flow[User] = 3 => (Len(calls) = 1 /\ calls[1].provider = "groq")

\* C3: a symptom request with "done" or reaching 3 collected symptoms calls
\* the symptom-triage provider (groq) once with the accumulated symptom list,
\* and when the call succeeds the symptoms are empty and chat_state is
\* "initial" in the store and in the response.
C3_CompletionCallsTriageAndResets ==
    (Served /\ Completing(req)) =>
        /\ Len(calls) = 1
        /\ calls[1].provider = "groq"
        /\ calls[1].prompt = SymptomPrompt(Append(SymptomsOf(req), lower(Message)))
        /\ raised = "" =>
              /\ chat_sessions[User].symptoms = <<>>
              /\ chat_sessions[User].chat_state = "initial"
              /\ resp.symptoms = <<>>
              /\ resp.chat_state = "initial"

C3_Witness ==
    /\ Served /\ Completing(req)
    /\ Len(SymptomsOf(req)) = 2 /\ lower(Message) # Done
    /\ raised = "" /\ posts # <<>>
    /\ resp.model_used = GroqLabel

\* C4: a request with an empty or whitespace-only message and a chat_state
\* other than "initial" returns the validation prompt with the requested
\* chat_state, makes no provider call and leaves the whole session store
\* unchanged.
C4_EmptyMessageLeavesStore ==
    [][ (MessageOf(req') = <<>> /\ StateOf(req') # "initial") =>
            /\ resp'.response = PleaseEnter
            /\ resp'.chat_state = StateOf(req')
            /\ calls' = <<>> /\ posts' = <<>>
            /\ chat_sessions' = chat_sessions ]_vars

C4_Witness ==
    /\ nreq > 1
    /\ Message = <<>> /\ StateOf(req) = "doctor"
    /\ Get(req, "message", <<>>) # <<>>
    /\ resp.response = PleaseEnter
    /\ User \in DOMAIN chat_sessions
    /\ chat_sessions[User].chat_state # "doctor"
    /\ chat_sessions[User].history # <<>>

\* C5: whenever the provider call of a request fails in chat_state "symptom",
\* "doctor" or "patient", the response is the generic apology with chat_state
\* "initial", symptoms empty and model_used null.
C5_FailureGivesApology ==
    (Served /\ raised # "" /\ StateOf(req) \in {"symptom", "doctor", "patient"}) =>
        /\ resp.response = Apology
        /\ resp.chat_state = "initial"
        /\ resp.symptoms = <<>>
        /\ "model_used" \in DOMAIN resp /\ resp.model_used = None

C5_Witness ==
    /\ Served /\ raised = "HTTPError"
    /\ StateOf(req) = "doctor" /\ SymptomsOf(req) # <<>>
    /\ resp.response = Apology

\* C6: after a request whose provider call failed, the chat_state stored for
\* that user id is "initial" and the stored symptoms are empty, as returned.
C6_FailureResetsStore ==
    (Served /\ raised # "") =>
        /\ chat_sessions[User].chat_state = "initial"
        /\ chat_sessions[User].symptoms = <<>>

\* C7: after N doctor requests with non-empty messages from one user id, F of
\* them failed, the session history holds exactly N user entries and exactly
\* N - F assistant entries.
C7_DoctorHistoryCounts ==
    \A u \in DOMAIN chat_sessions :
        ~turns[u].other =>
            /\ CountRole(chat_sessions[u].history, "user") = turns[u].n
            /\ CountRole(chat_sessions[u].history, "assistant") = turns[u].n - turns[u].f
            /\ Len(chat_sessions[u].history) = 2 * turns[u].n - turns[u].f

C7_Witness ==
    \E u \in DOMAIN chat_sessions :
        /\ ~turns[u].other /\ turns[u].n = 3 /\ turns[u].f = 1
        /\ chat_sessions[u].history[3].role = "user"
        /\ chat_sessions[u].history[4].role = "user"

\* C8: the chat_state stored for every user id is always one of "initial",
\* "symptom", "doctor", "patient".
C8_StoredStateInEnum ==
    \A u \in DOMAIN chat_sessions : chat_sessions[u].chat_state \in ValidStates

\* C9 as stated: a request with a non-empty message and an unrecognized
\* chat_state gets the invalid-state response with no provider call and no
\* assistant entry is appended to the history: the history ends with the
\* user message of the request.
C9_InvalidStateAppendsNoAssistant ==
    (Served /\ Message # <<>> /\ StateOf(req) \notin ValidStates) =>
        /\ resp.response = InvalidState
        /\ calls = <<>>
        /\ chat_sessions[User].history[Len(chat_sessions[User].history)]
             = [role |-> "user", content |-> Message]

\* C9 amended: such a request gets the invalid-state response with no
\* provider call, and appends to the history the user message followed by
\* exactly one assistant entry holding the invalid-state text.
C9_InvalidStateIsLogged ==
    [][ (MessageOf(req') # <<>> /\ StateOf(req') \notin ValidStates) =>
            /\ resp'.response = InvalidState
            /\ resp'.model_used = None
            /\ calls' = <<>> /\ posts' = <<>>
            /\ HistoryOf(chat_sessions', UserOf(req'))
                 = HistoryOf(chat_sessions, UserOf(req'))
                   \o UserEntry(MessageOf(req')) \o AssistantEntry(InvalidState) ]_vars

C9_Witness ==
    /\ nreq > 1 /\ Message # <<>> /\ StateOf(req) = "bogus"
    /\ resp.response = InvalidState
    /\ Len(chat_sessions[User].history) >= 4

\* The first of two identical "initial" requests from a fresh user id (the
\* store is empty), and the second of them.
FirstOfTwo == nreq = 0 /\ StateOf(req') = "initial"
SecondOfTwo == nreq = 1 /\ req' = req /\ StateOf(req) = "initial"

\* C10 as stated: two identical "initial" requests from a fresh user id
\* return identical menu responses with no provider call, and each call
\* grows the history by exactly one entry, the user message of the call.
C10_InitialAppendsOnlyUserMessage ==
    [][ (FirstOfTwo \/ SecondOfTwo) =>
            /\ resp'.response = Menu
            /\ calls' = <<>>
            /\ SecondOfTwo => resp' = resp
            /\ HistoryOf(chat_sessions', UserOf(req'))
                 = Append(HistoryOf(chat_sessions, UserOf(req')),
                          [role |-> "user", content |-> MessageOf(req')]) ]_vars

\* C10 amended: the two calls return identical menu responses with no
\* provider call, and each call appends the user message, when it is not
\* empty, followed by the menu as an assistant entry.
C10_InitialAppendsMessageAndMenu ==
    [][ (FirstOfTwo \/ SecondOfTwo) =>
            /\ resp'.response = Menu
            /\ resp'.model_used = None
            /\ calls' = <<>> /\ posts' = <<>>
            /\ SecondOfTwo => resp' = resp
            /\ HistoryOf(chat_sessions', UserOf(req'))
                 = HistoryOf(chat_sessions, UserOf(req'))
                   \o UserEntry(MessageOf(req')) \o AssistantEntry(Menu) ]_vars

C10_Witness ==
    /\ nreq = 2 /\ StateOf(req) = "initial" /\ Message # <<>>
    /\ resp.response = Menu
    /\ Len(chat_sessions[User].history) = 4
    /\ chat_sessions[User].history[1] = chat_sessions[User].history[3]
    /\ chat_sessions[User].history[2] = chat_sessions[User].history[4]
    /\ chat_sessions[User].history[4].content = Menu


\* The provider and the label of each flow.
FlowProvider(chat_state) ==
    CASE chat_state = "symptom" -> "groq"
      [] chat_state = "doctor" -> "anthropic"
      [] chat_state = "patient" -> "openai"

FlowLabel(chat_state) ==
    CASE chat_state = "symptom" -> <<"Llama 3.1 (Groq)">>
      [] chat_state = "doctor" -> <<"Claude 3.5 Sonnet">>
      [] chat_state = "patient" -> <<"ChatGPT (GPT-4o)">>

Flows == {"symptom", "doctor", "patient"}

\* C11: every request makes at most one provider call and at most one post
\* (no retry); the provider is fixed by chat_state ("symptom" groq, "doctor"
\* anthropic, "patient" openai); "initial", unrecognized states and the
\* empty-message path call no provider; model_used is non-null only when
\* the call succeeded, and then names that backend.
C11_OneCallFixedByState ==
    Served =>
        /\ Len(calls) <= 1 /\ Len(posts) <= Len(calls)
        /\ (StateOf(req) \notin Flows \/ Message = <<>>) => calls = <<>>
        /\ calls # <<>> =>
              /\ calls[1].provider = FlowProvider(StateOf(req))
              /\ posts # <<>> => posts[1].url = Url(FlowProvider(StateOf(req)))
        /\ ("model_used" \in DOMAIN resp /\ resp.model_used # None) =>
              /\ Len(posts) = 1 /\ raised = ""
              /\ resp.model_used = FlowLabel(StateOf(req))

C11_Witness ==
    /\ Served /\ StateOf(req) = "patient"
    /\ Len(posts) = 1 /\ raised = ""
    /\ resp.model_used = <<"ChatGPT (GPT-4o)">>


\* The provider name of the call is unknown, or its credential unset or empty.
Unconfigured(provider) ==
    IF provider \in Providers THEN env[provider] \in {None, <<>>} ELSE TRUE

\* C12: for a provider name that is unknown or whose credential is absent
\* or empty, call_ai_api raises the configuration error (ValueError) and
\* issues no transport call.
C12_UnconfiguredRaisesBeforePost ==
    (calls # <<>> /\ Unconfigured(calls[1].provider)) =>
        /\ raised = "ValueError"
        /\ posts = <<>>

C12_Witness ==
    /\ calls # <<>> /\ calls[1].provider = "anthropic"
    /\ env["anthropic"] = <<>> /\ env["groq"] = <<"k">>
    /\ raised = "ValueError" /\ posts = <<>>


OutputFields == {"response", "chat_state", "symptoms", "model_used"}

\* C13: every response of the endpoint, on every path, carries the four
\* fields response, chat_state, symptoms and model_used, with model_used null
\* when no provider produced the reply.
C13_ResponseHasFourFields ==
    Served =>
        /\ DOMAIN resp = OutputFields
        /\ (posts = <<>> \/ raised # "") => resp.model_used = None


CredentialHeaders == {"Authorization", "x-api-key"}

\* C14: every outbound provider request carries exactly one credential
\* header: for anthropic the x-api-key header and no Authorization header,
\* for openai and groq the bearer Authorization header and no x-api-key.
C14_OneCredentialHeader ==
    \A i \in 1..Len(posts) :
        LET provider == calls[i].provider
            headers == posts[i].headers
            present == DOMAIN headers \cap CredentialHeaders
        IN  /\ posts[i].url = Url(provider)
            /\ Cardinality(present) = 1
            /\ provider = "anthropic" =>
                  (present = {"x-api-key"} /\ headers["x-api-key"] = env[provider])
            /\ provider \in {"openai", "groq"} =>
                  (present = {"Authorization"}
                   /\ headers["Authorization"] = <<"Bearer ">> \o env[provider])

C14_Witness ==
    /\ Served /\ Len(posts) = 1 /\ calls[1].provider = "anthropic"
    /\ "x-api-key" \in DOMAIN posts[1].headers
    /\ "Authorization" \notin DOMAIN posts[1].headers


IsPrefix(a, b) == Len(a) <= Len(b) /\ SubSeq(b, 1, Len(a)) = a

\* C15: a session's history is append-only: for every request, on every
\* path, the history of each session before the request is a prefix of its
\* history after the request.
C15_HistoryAppendOnly ==
    [][ \A u \in DOMAIN chat_sessions :
            /\ u \in DOMAIN chat_sessions'
            /\ IsPrefix(chat_sessions[u].history, chat_sessions'[u].history) ]_vars

C15_Witness ==
    /\ nreq = 2 /\ raised # ""
    /\ Len(chat_sessions[User].history) = 3
    /\ chat_sessions[User].history[2].role = "assistant"
    /\ chat_sessions[User].history[3] = [role |-> "user", content |-> Message]


\* What one request leaves in the history of a session that was empty.
OwnEntries(message, exc, response) ==
    UserEntry(message) \o (IF exc = "" THEN AssistantEntry(response) ELSE <<>>)

\* C16: a session entry is created only by a request from its user id, with
\* history empty, chat_state "initial" and symptoms empty at creation (so
\* after the creating request its history holds that request's entries
\* only), and once present it is never removed nor replaced by a fresh entry
\* by later serial requests.
C16_SessionLifecycle ==
    [][ /\ DOMAIN chat_sessions \subseteq DOMAIN chat_sessions'
        /\ \A u \in DOMAIN chat_sessions' \ DOMAIN chat_sessions :
              /\ u = UserOf(req')
              /\ GetOrCreate(chat_sessions, u)[u]
                   = [history |-> <<>>, chat_state |-> "initial", symptoms |-> <<>>]
              /\ chat_sessions'[u].history
                   = OwnEntries(MessageOf(req'), raised', resp'.response)
        /\ \A u \in DOMAIN chat_sessions :
              /\ chat_sessions'[u].history # <<>>
              /\ IsPrefix(chat_sessions[u].history, chat_sessions'[u].history) ]_vars

C16_Witness ==
    /\ nreq = 2 /\ DOMAIN chat_sessions = UserIds
    /\ User = "u1" /\ StateOf(req) = "symptom"
    /\ Len(chat_sessions["default"].history) = 2
    /\ Len(chat_sessions["u1"].history) = 2


\* The prompt each flow composes for a request.
FlowPrompt(data) ==
    CASE StateOf(data) = "symptom" ->
             SymptomPrompt(Append(SymptomsOf(data), lower(MessageOf(data))))
      [] StateOf(data) = "doctor" -> DoctorPrompt(MessageOf(data))
      [] StateOf(data) = "patient" -> PatientPrompt(MessageOf(data))

\* C18: the payload of every provider call made by the router has as its
\* messages the session's history at the time of the call (the history
\* before the request plus the request's user message) followed by exactly
\* one user-role entry holding the composed prompt, with max_tokens 500 for
\* every provider; the call leaves the history it was given unchanged.
C18_PayloadIsHistoryPlusPrompt ==
    [][ posts' # <<>> =>
          LET u == UserOf(req')
              given == HistoryOf(chat_sessions, u) \o UserEntry(MessageOf(req'))
          IN  /\ Len(posts') = 1
              /\ calls'[1].context = given
              /\ calls'[1].prompt = FlowPrompt(req')
              /\ posts'[1].json.messages
                   = given \o <<[role |-> "user", content |-> FlowPrompt(req')]>>
              /\ posts'[1].json.max_tokens = 500
              /\ posts'[1].json.model = Model(calls'[1].provider)
              /\ HistoryOf(chat_sessions', u)
                   = given \o (IF raised' = "" THEN AssistantEntry(resp'.response)
                               ELSE <<>>) ]_vars

C18_Witness ==
    /\ nreq = 2 /\ Len(posts) = 1 /\ raised = ""
    /\ Len(calls[1].context) = 3
    /\ Len(posts[1].json.messages) = 4
    /\ posts[1].json.messages[4].content = calls[1].prompt
    /\ Len(chat_sessions[User].history) = 4


\* Both threads have answered a request that went past line 76.
BothServed ==
    \A t \in Threads :
        /\ threads[t].pc = "done"
        /\ ~IsValidationReturn(MessageOf(threads[t].data), StateOf(threads[t].data))

\* The threads whose response was appended at lines 111-112.
Replied == {t \in Threads : threads[t].resp # ErrorResponse /\ Truthy(threads[t].resp.response)}

\* No history entry of two concurrent requests of one user id is lost.
RaceKeepsHistory ==
    BothServed /\ Uid(1) = Uid(2) =>
        LET history == heap[chat_sessions[Uid(1)].history]
        IN  /\ CountRole(history, "user") = 2
            /\ CountRole(history, "assistant") = Cardinality(Replied)

\* Each of two concurrent requests of one user id prompts with, and
\* answers with, its own symptom list.
RaceKeepsOwnSymptoms ==
    BothServed /\ Uid(1) = Uid(2) =>
        \A t \in Threads :
            LET own == SymptomsOf(threads[t].data)
                appended == Append(own, lower(MessageOf(threads[t].data)))
            IN  /\ threads[t].out.posts # <<>> =>
                      threads[t].out.calls[1].prompt = FlowPrompt(threads[t].data)
                /\ threads[t].resp.symptoms \in {<<>>, own, appended}

\* C17: when two requests from the same user id run concurrently, the only
\* effect of the race is last-write-wins on the stored chat_state and
\* symptoms: after both finish the session history holds each request's
\* user message and each assistant reply that was produced (also when both
\* are the first requests of a fresh user id), and each request's provider
\* call and response use only that request's own symptom list.
C17_RaceIsLastWriteWinsOnly ==
    RaceKeepsHistory /\ RaceKeepsOwnSymptoms

\* The lists a session refers to.
ListsOf(sess) == {sess.history, sess.symptoms}

\* C19: sessions are isolated by user id: a step of a request for user id
\* u, on any path and under any interleaving with requests for other ids,
\* leaves the history, chat_state and symptoms of every session with a
\* different user id unchanged (the entry, and the contents of the lists
\* it refers to), and no list object is shared between two sessions.
C19_SessionsIsolated ==
    [][ /\ \A t \in Threads : threads'[t] # threads[t] =>
              \A v \in DOMAIN chat_sessions' \ {UserOf(threads'[t].data)} :
                  /\ v \in DOMAIN chat_sessions
                  /\ chat_sessions'[v] = chat_sessions[v]
                  /\ \A r \in ListsOf(chat_sessions[v]) : heap'[r] = heap[r]
        /\ \A u, v \in DOMAIN chat_sessions' :
              u # v => ListsOf(chat_sessions'[u]) \cap ListsOf(chat_sessions'[v]) = {} ]_vars

\* Two requests for different user ids in flight at once, both past their
\* handler, each session holding its own user message.
C19_Witness ==
    /\ Uid(1) # Uid(2)
    /\ threads[1].pc = "l111" /\ threads[2].pc = "l100"
    /\ DOMAIN chat_sessions = UserIds
    /\ \A u \in UserIds : Len(heap[chat_sessions[u].history]) = 1
    /\ chat_sessions[Uid(2)].symptoms = Ref("clear", 2)

====
